---- MODULE Spec2Model ----
(***************************************************************************)
(* A model of rag-finance-engine: the chat-history store and the           *)
(* question-answering operation of queryBot.js, and the embedding indexer  *)
(* of embedAll.js.                                                         *)
(*                                                                         *)
(* Three specifications share the variables:                               *)
(*   SpecHistory  loadHistory / saveHistory called directly                *)
(*   Spec         question-answering operations run by concurrent shells   *)
(*   SpecIndexer  runs of the indexer over changing source rows            *)
(***************************************************************************)
EXTENDS Integers, Sequences, FiniteSets, TLC

VARIABLES
    histFile,   \* chat_history.json on disk
    lastCall,   \* SpecHistory: the last direct call of the history store
    pc,         \* Spec: where each shell's operation stands
    op,         \* Spec: the locals of each shell's operation
    nextOp,     \* Spec: number of the next operation to start
    stale,      \* Spec: per shell, the saves that completed behind its back
    lastWriter, \* Spec: the shell that last rewrote histFile
    src,        \* SpecIndexer: the source tables
    documents,  \* SpecIndexer: the documents table
    ix,         \* SpecIndexer: the indexer process
    audit       \* SpecIndexer: bookkeeping about runs

vars == <<histFile, lastCall, pc, op, nextOp, stale, lastWriter,
          src, documents, ix, audit>>

histVars == <<histFile, lastCall>>
answerVars == <<pc, op, nextOp, stale, lastWriter>>
indexVars == <<src, documents, ix, audit>>

-----------------------------------------------------------------------------
(* Program constants and bounds *)

HISTORY_LIMIT == 10

\* saveHistory is tried with HISTORY_LIMIT + k turns for k up to MaxExtra
MaxExtra == 2
\* ... and with short sequences of up to MaxShort turns
MaxShort == 1
\* the first turn of an input sequence is numbered 1 + s for s up to MaxStart
MaxStart == 1

Scopes == {"u1", "u2"}

-----------------------------------------------------------------------------
(* Chat history: src/queryBot.js section 1 *)

\* A JS string is modelled as the sequence of its pieces, so that template
\* literals and joins are concatenations; the empty string is <<>>.
Turn(role, content) == [role |-> role, content |-> content]

\* the k-th turn of a conversation: user and assistant alternate
NthTurn(k) ==
    Turn(IF k % 2 = 1 THEN "user" ELSE "assistant", <<ToString(k)>>)

TurnSeq(start, len) == [i \in 1..len |-> NthTurn(start + i)]

\* a JS object with no keys
EmptyObj == [s \in {} |-> <<>>]

\* obj[key] = value
Put(obj, key, value) ==
    [s \in (DOMAIN obj) \cup {key} |-> IF s = key THEN value ELSE obj[s]]

FileAbsent == [kind |-> "absent", all |-> EmptyObj]
FileCorrupt == [kind |-> "corrupt", all |-> EmptyObj]
FileJson(all) == [kind |-> "json", all |-> all]

\* a mutant of SliceLast: keeps the oldest n
SliceFirst(seq, n) ==
    IF Len(seq) <= n THEN seq ELSE SubSeq(seq, 1, n)

\* Array.prototype.slice(-n)
SliceLast(seq, n) ==
    IF Len(seq) <= n THEN seq ELSE SubSeq(seq, Len(seq) - n + 1, Len(seq))

\* JSON.parse(fs.readFileSync(HISTORY_FILE, 'utf8')): throws when the file is
\* missing (ENOENT), when the read fails (io = "err") and when the text is
\* not JSON
ReadAll(file, io) ==
    IF io = "err" \/ file.kind # "json"
    THEN [threw |-> TRUE, all |-> EmptyObj]
    ELSE [threw |-> FALSE, all |-> file.all]

\* a mutant of loadHistory: no try/catch around the read
LoadHistoryNoCatch(file, userId, io) ==
    LET r == ReadAll(file, io) IN
    IF r.threw THEN [raised |-> TRUE, turns |-> <<>>]
    ELSE IF userId \in DOMAIN r.all
         THEN [raised |-> FALSE, turns |-> SliceLast(r.all[userId], HISTORY_LIMIT)]
         ELSE [raised |-> FALSE, turns |-> <<>>]

loadHistory(file, userId, io) ==
    LET r == ReadAll(file, io) IN
    IF r.threw THEN [raised |-> FALSE, turns |-> <<>>]
    ELSE IF userId \in DOMAIN r.all
         THEN [raised |-> FALSE, turns |-> SliceLast(r.all[userId], HISTORY_LIMIT)]
         ELSE [raised |-> FALSE, turns |-> <<>>]

\* saveHistory, first half: let all = {}; try { all = JSON.parse(read) } catch {}
SaveHistoryRead(file, io) ==
    LET r == ReadAll(file, io) IN
    IF r.threw THEN EmptyObj ELSE r.all

\* a mutant of SaveHistoryWrite: the entry is replaced in the state the file
\* holds at the time of the write (an atomic update), not in the state read
SaveHistoryWriteAtomic(file, all, userId, history, wio) ==
    LET base == IF file.kind = "json" THEN file.all ELSE all
        new == Put(base, userId, SliceLast(history, HISTORY_LIMIT))
    IN CASE wio = "ok" -> [file |-> FileJson(new), raised |-> FALSE]
         [] wio = "fail" -> [file |-> file, raised |-> TRUE]
         [] OTHER -> [file |-> FileCorrupt, raised |-> TRUE]

\* saveHistory, second half: all[userId] = history.slice(-N); writeFileSync.
\* wio = "ok": the file is replaced; "fail": the write throws before the file
\* is touched; "partial": it throws after the file was truncated.
SaveHistoryWrite(file, all, userId, history, wio) ==
    LET new == Put(all, userId, SliceLast(history, HISTORY_LIMIT)) IN
    CASE wio = "ok" -> [file |-> FileJson(new), raised |-> FALSE]
      [] wio = "fail" -> [file |-> file, raised |-> TRUE]
      [] OTHER -> [file |-> FileCorrupt, raised |-> TRUE]

saveHistory(file, userId, history, rio, wio) ==
    SaveHistoryWrite(file, SaveHistoryRead(file, rio), userId, history, wio)

ReadOutcomes == {"ok", "err"}
WriteOutcomes == {"ok", "fail", "partial"}

\* the turn sequences saveHistory is called with
InputLens == (0..MaxShort) \cup (HISTORY_LIMIT..(HISTORY_LIMIT + MaxExtra))
InputTurns == {TurnSeq(s, n) : s \in 0..MaxStart, n \in InputLens}

NoCall == [call |-> "none", userId |-> "", turns |-> <<>>, rio |-> "ok",
           wio |-> "ok", raised |-> FALSE]

CallSaveHistory ==
    \E userId \in Scopes, turns \in InputTurns,
       rio \in ReadOutcomes, wio \in WriteOutcomes :
        LET r == saveHistory(histFile, userId, turns, rio, wio) IN
        /\ histFile' = r.file
        /\ lastCall' = [call |-> "save", userId |-> userId, turns |-> turns,
                        rio |-> rio, wio |-> wio, raised |-> r.raised]
        /\ UNCHANGED <<answerVars, indexVars>>

CallLoadHistory ==
    \E userId \in Scopes, rio \in ReadOutcomes :
        LET r == loadHistory(histFile, userId, rio) IN
        /\ lastCall' = [call |-> "load", userId |-> userId, turns |-> r.turns,
                        rio |-> rio, wio |-> "ok", raised |-> r.raised]
        /\ UNCHANGED <<histFile, answerVars, indexVars>>

-----------------------------------------------------------------------------
(* Question answering: src/queryBot.js sections 2-6.  Each shell runs
   `node queryBot.js <question>`; the shells share chat_history.json. *)

\* the shells of a behaviour: one in Spec, two in SpecShells
Shells == DOMAIN pc

\* operations started in one behaviour
MaxOps == 3

QuestionTexts == <<"q1", "q2", "q3", "q4", "q5", "q6">>

\* the question of the id-th operation: process.argv.slice(2).join(' ')
QuestionText(id) == <<QuestionTexts[id]>>

Refusal ==
    <<"I'm a financial assistant and can only provide answers based on the financial data available to me.">>

policyPrompt ==
    <<"You are a senior financial analyst assistant, expert in accounting.", " ",
      "For **financial** questions, you may ONLY use the supplied context.", " ",
      "If information is missing, respond exactly:", " ",
      "\"">> \o Refusal \o <<"\"", " ",
      "For **meta** questions about your previous answers (e.g. \"why did you ...\"),", " ",
      "you may explain your reasoning even if that reasoning isn't in the context.", " ",
      "- Always cite which context rows or formulas you used when giving numbers.">>

Whitespace == {" ", "\n"}

RECURSIVE TrimStart(_)
TrimStart(str) ==
    IF str # <<>> /\ Head(str) \in Whitespace THEN TrimStart(Tail(str)) ELSE str

RECURSIVE TrimEnd(_)
TrimEnd(str) ==
    IF str # <<>> /\ str[Len(str)] \in Whitespace
    THEN TrimEnd(SubSeq(str, 1, Len(str) - 1))
    ELSE str

\* String.prototype.trim
Trim(str) == TrimEnd(TrimStart(str))

\* resp.choices[0].message.content, as the model may return it
RawReplies ==
    {<<"Cash is 15900 [row 1]">>, <<"\n", "Cash is 15900 [row 1]", " ">>, Refusal}

\* rows of financial_kb, and rows match_documents may return
KBChoices ==
    {<<>>, <<[title |-> <<"Runway">>,
              content |-> <<"Runway in months = Current Cash Balance / Monthly Burn Rate.">>],
             [title |-> <<"Burn Rate">>,
              content |-> <<"Burn Rate = Cash Spent / Number of Months.">>]>>}

\* fetchContext(question, count = 50) and match_threshold: 0.0
MATCH_COUNT == 50
MATCH_THRESHOLD == 0

\* documents in the store beyond MATCH_COUNT
MaxOver == 1

\* a row of the documents table, as the indexer writes it
StoredDoc(user, table, id, content) ==
    [user_id |-> [t |-> "str", v |-> <<user>>],
     source_table |-> table,
     source_id |-> [t |-> "str", v |-> <<id>>],
     content |-> content,
     embedding |-> <<"vec">> \o content]

\* the documents of two users
SmallStore ==
    <<StoredDoc("u1", "account_snapshots", "s1",
                <<"Account Balance | cash_balance=15900">>),
      StoredDoc("u2", "account_snapshots", "s9",
                <<"Account Balance | cash_balance=-800">>),
      StoredDoc("u1", "accounts", "a1", <<"ACCOUNTS | name=\"Main Checking\"">>)>>

\* more documents of u1 than one search may return, and one of u2
BigStore ==
    [i \in 1..(MATCH_COUNT + MaxOver + 1) |->
        IF i <= MATCH_COUNT + MaxOver
        THEN StoredDoc("u1", "transactions", ToString(i),
                       <<"TRANSACTIONS | id=", ToString(i)>>)
        ELSE StoredDoc("u2", "transactions", ToString(i),
                       <<"TRANSACTIONS | id=", ToString(i)>>)]

\* how the query embedding lies to the embeddings of the documents
SimChoices == {"none", "mixed", "all"}

\* the similarity of the document at position i to the query
Similarity(kind, i) ==
    CASE kind = "none" -> -1
      [] kind = "mixed" -> (i % 3) - 1
      [] OTHER -> 1 + (i % 2)

RECURSIVE SortDesc(_, _)
\* the positions of hits, highest similarity first, earlier position first
\* among equals
SortDesc(hits, kind) ==
    IF hits = {} THEN <<>>
    ELSE LET best == CHOOSE i \in hits :
                        \A j \in hits :
                            \/ Similarity(kind, i) > Similarity(kind, j)
                            \/ Similarity(kind, i) = Similarity(kind, j) /\ i <= j
         IN <<best>> \o SortDesc(hits \ {best}, kind)

\* the match_documents RPC: at most match_count documents of p_user_id whose
\* similarity is at least match_threshold, highest similarity first
match_documents(docs, p_user_id, kind, match_threshold, match_count) ==
    LET hits == {i \in 1..Len(docs) :
                    /\ docs[i].user_id = [t |-> "str", v |-> <<p_user_id>>]
                    /\ Similarity(kind, i) >= match_threshold}
        order == SortDesc(hits, kind)
        n == IF Len(order) <= match_count THEN Len(order) ELSE match_count
    IN [k \in 1..n |-> [content |-> docs[order[k]].content,
                        similarity |-> Similarity(kind, order[k]),
                        user_id |-> docs[order[k]].user_id]]

RECURSIVE Join(_, _)
\* Array.prototype.join: the parts with sep between them
Join(parts, sep) ==
    IF parts = <<>> THEN <<>>
    ELSE IF Len(parts) = 1 THEN parts[1]
    ELSE parts[1] \o sep \o Join(Tail(parts), sep)

\* a mutant of ContextText: a section without entries is left out
ContextTextSkipEmpty(defs, rows) ==
    LET kbText == Join([i \in 1..Len(defs) |->
                          <<"**">> \o defs[i].title \o <<"**: ">> \o defs[i].content],
                       <<"\n">>)
        dataText == Join([i \in 1..Len(rows) |-> rows[i].content], <<"\n---\n">>)
    IN Join((IF defs = <<>> THEN <<>> ELSE << <<"--- FINANCIAL FORMULAS ---">>, kbText, <<>> >>)
            \o (IF rows = <<>> THEN <<>> ELSE << <<"--- USER DATA ROWS ---">>, dataText >>),
            <<"\n">>)

\* a mutant of ContextText: the data rows in reverse order
ContextTextReversed(defs, rows) ==
    LET kbText == Join([i \in 1..Len(defs) |->
                          <<"**">> \o defs[i].title \o <<"**: ">> \o defs[i].content],
                       <<"\n">>)
        dataText == Join([i \in 1..Len(rows) |-> rows[Len(rows) + 1 - i].content],
                         <<"\n---\n">>)
    IN Join(<< <<"--- FINANCIAL FORMULAS ---">>, kbText, <<>>,
               <<"--- USER DATA ROWS ---">>, dataText >>, <<"\n">>)

\* fetchContext 4A-4D, given the rows the two reads returned
ContextText(defs, rows) ==
    LET kbText == Join([i \in 1..Len(defs) |->
                          <<"**">> \o defs[i].title \o <<"**: ">> \o defs[i].content],
                       <<"\n">>)
        dataText == Join([i \in 1..Len(rows) |-> rows[i].content], <<"\n---\n">>)
    IN Join(<< <<"--- FINANCIAL FORMULAS ---">>, kbText, <<>>,
               <<"--- USER DATA ROWS ---">>, dataText >>, <<"\n">>)

\* a mutant of Messages: the policy message comes first
MessagesPolicyFirst(history, context, question) ==
    <<Turn("system", policyPrompt)>> \o history \o
    <<Turn("system", context), Turn("user", question)>>

\* answer: const messages = [...history, policy, context, question]
Messages(history, context, question) ==
    history \o <<Turn("system", policyPrompt),
                 Turn("system", context),
                 Turn("user", question)>>

\* a mutant of embed: the vector of the empty text
embedNothing(text) == <<"vec">>

\* embed(text): the vector of the embedding model for the text
embed(text) == <<"vec">> \o text

NoOp == [id |-> 0, scope |-> "", question |-> <<>>, defs |-> <<>>, rows |-> <<>>,
         context |-> <<>>, calls |-> <<>>, qvec |-> <<>>,
         history |-> <<>>, messages |-> <<>>, reply |-> <<>>, replied |-> FALSE,
         all |-> EmptyObj, result |-> <<>>, exit |-> -1, failedAt |-> ""]

\* a mutant of Fail: a failed step of context assembly is passed over
FailSoft(p, at) ==
    /\ pc' = [pc EXCEPT ![p] = IF at \in {"kb", "embed", "search"} THEN "load"
                                ELSE "exited"]
    /\ op' = [op EXCEPT ![p].exit = IF at \in {"kb", "embed", "search"} THEN -1 ELSE 1,
                        ![p].failedAt = at]

\* a mutant of Fail: the process ends with code 0
FailExitZero(p, at) ==
    /\ pc' = [pc EXCEPT ![p] = "exited"]
    /\ op' = [op EXCEPT ![p].exit = 0, ![p].failedAt = at,
                        ![p].defs = <<>>, ![p].rows = <<>>, ![p].context = <<>>,
                        ![p].messages = <<>>]

\* the operation ends in failure: the error reaches main, which exits with 1.
\* (Locals that nothing reads any more are reset here and below.)
Fail(p, at) ==
    /\ pc' = [pc EXCEPT ![p] = "exited"]
    /\ op' = [op EXCEPT ![p].exit = 1, ![p].failedAt = at,
                        ![p].defs = <<>>, ![p].rows = <<>>, ![p].context = <<>>,
                        ![p].messages = <<>>, ![p].qvec = <<>>,
                        ![p].calls = IF at = "usage" THEN @ ELSE Append(@, at)]

\* a shell starts `node queryBot.js ...` with DUMMY_USER_ID = scope
Start(p) ==
    /\ pc[p] = "idle"
    /\ nextOp <= MaxOps
    /\ \E scope \in Scopes, q \in {<<>>, QuestionText(nextOp)} :
          op' = [op EXCEPT ![p] = [NoOp EXCEPT !.id = nextOp, !.scope = scope,
                                                !.question = q]]
    /\ pc' = [pc EXCEPT ![p] = "greet"]
    /\ nextOp' = nextOp + 1
    /\ stale' = [stale EXCEPT ![p] = {}]
    /\ UNCHANGED <<histFile, lastCall, lastWriter, indexVars>>

\* main: await greet()
Greet(p) ==
    /\ pc[p] = "greet"
    /\ \/ /\ pc' = [pc EXCEPT ![p] = "argv"]
          /\ op' = [op EXCEPT ![p].calls = Append(@, "greet")]
       \/ Fail(p, "greet")
    /\ UNCHANGED <<histFile, lastCall, nextOp, stale, lastWriter, indexVars>>

\* main: if (!question) { usage; process.exit(1) }
CheckQuestion(p) ==
    /\ pc[p] = "argv"
    /\ IF op[p].question = <<>>
       THEN Fail(p, "usage")
       ELSE pc' = [pc EXCEPT ![p] = "kb"] /\ op' = op
    /\ UNCHANGED <<histFile, lastCall, nextOp, stale, lastWriter, indexVars>>

\* fetchContext 4A: read financial_kb
FetchKB(p) ==
    /\ pc[p] = "kb"
    /\ \/ \E defs \in KBChoices :
            /\ pc' = [pc EXCEPT ![p] = "embed"]
            /\ op' = [op EXCEPT ![p].defs = defs, ![p].calls = Append(@, "kb")]
       \/ Fail(p, "kb")
    /\ UNCHANGED <<histFile, lastCall, nextOp, stale, lastWriter, indexVars>>

\* fetchContext 4B: embed the question
EmbedQuestion(p) ==
    /\ pc[p] = "embed"
    /\ \/ /\ pc' = [pc EXCEPT ![p] = "search"]
          /\ op' = [op EXCEPT ![p].qvec = embed(op[p].question),
                              ![p].calls = Append(@, "embed")]
       \/ Fail(p, "embed")
    /\ UNCHANGED <<histFile, lastCall, nextOp, stale, lastWriter, indexVars>>

\* a mutant of MatchDocuments: the request is built and sent without the
\* history having been loaded
MatchDocumentsSkipLoad(p) ==
    /\ pc[p] = "search"
    /\ \/ \E kind \in SimChoices :
            LET rows == match_documents(documents, op[p].scope, kind,
                                        MATCH_THRESHOLD, MATCH_COUNT)
                context == ContextText(op[p].defs, rows)
            IN /\ pc' = [pc EXCEPT ![p] = "llm"]
               /\ op' = [op EXCEPT ![p].rows = rows,
                                   ![p].context = context,
                                   ![p].calls = Append(@, "search"),
                                   ![p].messages =
                                       Messages(<<>>, context, op[p].question)]
       \/ Fail(p, "search")
    /\ UNCHANGED <<histFile, lastCall, nextOp, stale, lastWriter, indexVars>>

\* fetchContext 4C-4D: the match_documents RPC and the merge of the chunks
MatchDocuments(p) ==
    /\ pc[p] = "search"
    /\ \/ \E kind \in SimChoices :
            LET rows == match_documents(documents, op[p].scope, kind,
                                        MATCH_THRESHOLD, MATCH_COUNT)
            IN /\ pc' = [pc EXCEPT ![p] = "load"]
               /\ op' = [op EXCEPT ![p].rows = rows,
                                   ![p].context = ContextText(op[p].defs, rows),
                                   ![p].calls = Append(@, "search")]
       \/ Fail(p, "search")
    /\ UNCHANGED <<histFile, lastCall, nextOp, stale, lastWriter, indexVars>>

\* answer: loadHistory(USER_ID), build the messages, send the request
LoadAndAsk(p) ==
    /\ pc[p] = "load"
    /\ \E rio \in ReadOutcomes :
          LET history == loadHistory(histFile, op[p].scope, rio).turns IN
          op' = [op EXCEPT ![p].history = history,
                           ![p].calls = Append(@, "load"),
                           ![p].messages =
                               Messages(history, op[p].context, op[p].question)]
    /\ pc' = [pc EXCEPT ![p] = "llm"]
    /\ UNCHANGED <<histFile, lastCall, nextOp, stale, lastWriter, indexVars>>

\* answer: the chat completion returns, or fails
ChatCompletion(p) ==
    /\ pc[p] = "llm"
    /\ \/ \E raw \in RawReplies :
            /\ pc' = [pc EXCEPT ![p] = "saveRead"]
            /\ op' = [op EXCEPT ![p].reply = Trim(raw), ![p].replied = TRUE,
                                ![p].qvec = <<>>, ![p].calls = Append(@, "llm"),
                                ![p].defs = <<>>, ![p].rows = <<>>, ![p].context = <<>>,
                                ![p].messages = <<>>]
       \/ Fail(p, "llm")
    /\ UNCHANGED <<histFile, lastCall, nextOp, stale, lastWriter, indexVars>>

\* saveHistory: read the whole state
SaveRead(p) ==
    /\ pc[p] = "saveRead"
    /\ \E rio \in ReadOutcomes :
          op' = [op EXCEPT ![p].all = SaveHistoryRead(histFile, rio),
                           ![p].calls = Append(@, "save")]
    /\ pc' = [pc EXCEPT ![p] = "saveWrite"]
    /\ UNCHANGED <<histFile, lastCall, nextOp, stale, lastWriter, indexVars>>

\* a mutant of NewHistory: the user turn is left out
NewHistoryReplyOnly(o) ==
    o.history \o <<Turn("assistant", o.reply)>>

\* a mutant of NewHistory: the policy message is persisted with the exchange
NewHistoryWithPolicy(o) ==
    o.history \o <<Turn("system", policyPrompt),
                   Turn("user", o.question), Turn("assistant", o.reply)>>

\* the history answer() hands to saveHistory
NewHistory(o) ==
    o.history \o <<Turn("user", o.question), Turn("assistant", o.reply)>>

\* the shells whose view of the file a save by p has just made stale: those
\* between the two halves of their own save, and those of the same scope
\* that loaded their history and have not saved yet
Overtaken(p) ==
    {q \in Shells \ {p} :
        \/ pc[q] = "saveWrite"
        \/ pc[q] \in {"llm", "saveRead"} /\ op[q].scope = op[p].scope}

\* saveHistory: write the whole state back; then answer returns the reply and
\* main prints it.  A write that throws reaches main's catch: exit(1).
SaveWrite(p) ==
    /\ pc[p] = "saveWrite"
    /\ \E wio \in WriteOutcomes :
          LET r == SaveHistoryWrite(histFile, op[p].all, op[p].scope,
                                    NewHistory(op[p]), wio) IN
          /\ histFile' = r.file
          /\ IF r.raised
             THEN /\ op' = [op EXCEPT ![p].exit = 1, ![p].failedAt = "save",
                                       ![p].all = EmptyObj]
                  /\ UNCHANGED <<stale, lastWriter>>
             ELSE /\ op' = [op EXCEPT ![p].exit = 0, ![p].result = op[p].reply,
                                       ![p].all = EmptyObj]
                  /\ stale' = [q \in Shells |->
                                 IF q \in Overtaken(p)
                                 THEN stale[q] \cup {[id |-> op[p].id,
                                                      scope |-> op[p].scope]}
                                 ELSE stale[q]]
                  /\ lastWriter' = p
    /\ pc' = [pc EXCEPT ![p] = "exited"]
    /\ UNCHANGED <<lastCall, nextOp, indexVars>>

\* the shell is free for its next command
Restart(p) ==
    /\ pc[p] = "exited"
    /\ pc' = [pc EXCEPT ![p] = "idle"]
    /\ op' = [op EXCEPT ![p] = NoOp]
    /\ stale' = [stale EXCEPT ![p] = {}]
    /\ UNCHANGED <<histFile, lastCall, nextOp, lastWriter, indexVars>>

ShellStep(p) ==
    \/ Start(p)
    \/ Greet(p)
    \/ CheckQuestion(p)
    \/ FetchKB(p)
    \/ EmbedQuestion(p)
    \/ MatchDocuments(p)
    \/ LoadAndAsk(p)
    \/ ChatCompletion(p)
    \/ SaveRead(p)
    \/ SaveWrite(p)
    \/ Restart(p)

-----------------------------------------------------------------------------
(* The indexer: src/unnamed/part_003 (embedAll.js) *)

\* indexer runs started, and source changes made, in one behaviour
MaxRuns == 3
MaxChanges == 2

TABLES_TO_EMBED ==
    <<"profiles", "accounts", "categories", "transactions", "budgets",
      "customers", "invoices", "vendors", "bills", "account_snapshots",
      "monthly_expense_snapshots", "financial_kb">>

\* column values: strings, numbers, null, and undefined for a missing key
Str(x) == [t |-> "str", v |-> <<x>>]
Num(n) == [t |-> "num", v |-> <<ToString(n)>>]
Null == [t |-> "null", v |-> <<>>]
Undefined == [t |-> "undefined", v |-> <<>>]

\* a row is the sequence of its [k, v] entries, in Object.entries order
Field(k, v) == [k |-> k, v |-> v]

\* row[key]
Get(row, key) ==
    IF \E i \in 1..Len(row) : row[i].k = key
    THEN row[CHOOSE i \in 1..Len(row) : row[i].k = key].v
    ELSE Undefined

\* `${value}` in a template literal
Interp(value) ==
    CASE value.t = "null" -> <<"null">>
      [] value.t = "undefined" -> <<"undefined">>
      [] OTHER -> value.v

\* JSON.stringify(value)
JsonStringify(value) ==
    CASE value.t = "str" -> <<"\"">> \o value.v \o <<"\"">>
      [] value.t = "null" -> <<"null">>
      [] OTHER -> value.v

\* String.prototype.toUpperCase on the table names
UpperNames ==
    <<"PROFILES", "ACCOUNTS", "CATEGORIES", "TRANSACTIONS", "BUDGETS",
      "CUSTOMERS", "INVOICES", "VENDORS", "BILLS", "ACCOUNT_SNAPSHOTS",
      "MONTHLY_EXPENSE_SNAPSHOTS", "FINANCIAL_KB">>

ToUpperCase(table) ==
    UpperNames[CHOOSE i \in 1..Len(TABLES_TO_EMBED) : TABLES_TO_EMBED[i] = table]

\* Array.prototype.filter
RECURSIVE Filter(_, _)
Filter(row, dropped) ==
    IF row = <<>> THEN <<>>
    ELSE IF Head(row).k \in dropped THEN Filter(Tail(row), dropped)
    ELSE <<Head(row)>> \o Filter(Tail(row), dropped)

\* a mutant of serialize: the generic KEY=VALUE list for every table
serializeGeneric(table, row, acct) ==
    LET kept == Filter(row, {"metadata", "updated_at"})
        fields == Join([i \in 1..Len(kept) |->
                          <<kept[i].k, "=">> \o JsonStringify(kept[i].v)],
                       <<" | ">>)
    IN <<ToUpperCase(table), " | ">> \o fields

\* serialize(table, row); acct is the accounts row the lookup returned
serialize(table, row, acct) ==
    CASE table = "account_snapshots" ->
            <<"Account Balance | account_name=\"">> \o Interp(Get(acct, "name"))
            \o <<"\" | ", "account_type=\"">> \o Interp(Get(acct, "type"))
            \o <<"\" | as_of=\"">> \o Interp(Get(row, "snapshot_date"))
            \o <<"\" | ", "cash_balance=">> \o Interp(Get(row, "balance"))
      [] table = "monthly_expense_snapshots" ->
            <<"Monthly Expense Snapshot | ", "period=\"">>
            \o Interp(Get(row, "period_start")) \o <<" to ">>
            \o Interp(Get(row, "period_end"))
            \o <<"\" | ", "total_expense=">> \o Interp(Get(row, "total_expense"))
      [] table = "financial_kb" ->
            <<"Formula | title=\"">> \o Interp(Get(row, "title"))
            \o <<"\" | expression=\"">> \o Interp(Get(row, "content")) \o <<"\"">>
      [] OTHER ->
            LET kept == Filter(row, {"metadata", "updated_at"})
                fields == Join([i \in 1..Len(kept) |->
                                  <<kept[i].k, "=">> \o JsonStringify(kept[i].v)],
                               <<" | ">>)
            IN <<ToUpperCase(table), " | ">> \o fields

\* the vector the embedding model returns for a text (the same text gives
\* the same vector)
makeEmbedding(text) == <<"vec">> \o text

\* the object embedTable hands to upsert; JSON drops an undefined user_id,
\* which the store keeps as NULL
\* a mutant of DocOf: the content carries the number of the run
DocOfStamped(table, row, content, embedding) ==
    [user_id |-> IF Get(row, "user_id").t = "undefined" THEN Null
                 ELSE Get(row, "user_id"),
     source_table |-> table,
     source_id |-> Get(row, "id"),
     content |-> content \o <<ToString(ix.run)>>,
     embedding |-> embedding]

\* a mutant of DocOf: a row without user_id is stored under the seeded user
DocOfDefaultUser(table, row, content, embedding) ==
    [user_id |-> IF Get(row, "user_id").t = "undefined" THEN Str("u1")
                 ELSE Get(row, "user_id"),
     source_table |-> table,
     source_id |-> Get(row, "id"),
     content |-> content,
     embedding |-> embedding]

DocOf(table, row, content, embedding) ==
    [user_id |-> IF Get(row, "user_id").t = "undefined" THEN Null
                 ELSE Get(row, "user_id"),
     source_table |-> table,
     source_id |-> Get(row, "id"),
     content |-> content,
     embedding |-> embedding]

SameKey(d, e) ==
    d.source_table = e.source_table /\ d.source_id = e.source_id

\* a mutant of Upsert: a plain insert
UpsertAsInsert(docs, doc) == Append(docs, doc)

\* a mutant of Upsert: ignoreDuplicates, a row in conflict is left alone
UpsertIgnoreDuplicates(docs, doc) ==
    IF \E i \in 1..Len(docs) : SameKey(docs[i], doc)
    THEN docs
    ELSE Append(docs, doc)

\* a mutant of Upsert: the documents of the table are replaced by the new one
UpsertReplaceTable(docs, doc) ==
    LET OtherTable(d) == d.source_table # doc.source_table
    IN Append(SelectSeq(docs, OtherTable), doc)

\* .upsert(doc, { onConflict: ['source_table', 'source_id'] }) on the
\* documents table, which is unique on that pair: the row in conflict is
\* updated in place, otherwise the document is inserted
Upsert(docs, doc) ==
    IF \E i \in 1..Len(docs) : SameKey(docs[i], doc)
    THEN [i \in 1..Len(docs) |-> IF SameKey(docs[i], doc) THEN doc ELSE docs[i]]
    ELSE Append(docs, doc)

\* the rows of the model's store
ProfileRow ==
    <<Field("id", Str("u1")), Field("name", Str("Felipe Melendez")),
      Field("email", Str("felipe@example.com"))>>

AccountNames == <<"Main Checking", "Operating Account">>

AccountRow(name) ==
    <<Field("id", Str("a1")), Field("user_id", Str("u1")),
      Field("name", Str(name)), Field("type", Str("cash")),
      Field("currency", Str("USD")), Field("updated_at", Str("2025-04-01"))>>

Balances == <<15900, 16400>>

SnapshotRow(id, date, balance) ==
    <<Field("id", Str(id)), Field("user_id", Str("u1")),
      Field("account_id", Str("a1")), Field("snapshot_date", Str(date)),
      Field("balance", Num(balance))>>

KBRow ==
    <<Field("id", Str("k1")), Field("title", Str("Runway")),
      Field("content", Str("Runway = Current Cash Balance / Monthly Burn Rate"))>>

InitSource ==
    [t \in {TABLES_TO_EMBED[i] : i \in 1..Len(TABLES_TO_EMBED)} |->
        CASE t = "profiles" -> <<ProfileRow>>
          [] t = "accounts" -> <<AccountRow(AccountNames[1])>>
          [] t = "account_snapshots" ->
                <<SnapshotRow("s1", "2025-03-31", Balances[1]),
                  SnapshotRow("s2", "2025-04-30", Balances[1])>>
          [] t = "financial_kb" -> <<KBRow>>
          [] OTHER -> <<>>]

\* row[key] = value, the other entries in place
SetField(row, key, value) ==
    [i \in 1..Len(row) |-> IF row[i].k = key THEN Field(key, value) ELSE row[i]]

Other(pair, x) == IF pair[1] = x THEN pair[2] ELSE pair[1]

NoRun == [pc |-> "idle", run |-> 0, t |-> 0, rows |-> <<>>, i |-> 0,
          content |-> <<>>, embedding |-> <<>>, attempt |-> 0, calls |-> 0,
          err |-> "none",
          thrown |-> [from |-> "none", table |-> "", source_id |-> Undefined]]

NoAudit == [changes |-> 0, tainted |-> FALSE, docsAtStart |-> <<>>,
            indexed |-> {}, baseOk |-> FALSE, baseDocs |-> <<>>,
            baseRuns |-> 0, fetched |-> {}, facts |-> {}, said |-> {}]

\* a change of the source rows, made by the application that owns them
SourceChanged ==
    audit' = [audit EXCEPT !.changes = @ + 1, !.tainted = TRUE,
                           !.baseOk = FALSE, !.baseRuns = 0]

RenameAccount ==
    /\ audit.changes < MaxChanges
    /\ LET row == src["accounts"][1]
           name == Other(AccountNames, Get(row, "name").v[1])
       IN src' = [src EXCEPT !["accounts"] = <<SetField(row, "name", Str(name))>>]
    /\ SourceChanged
    /\ UNCHANGED <<histVars, answerVars, documents, ix>>

ChangeBalance ==
    /\ audit.changes < MaxChanges
    /\ LET rows == src["account_snapshots"]
           cur == IF Get(rows[1], "balance") = Num(Balances[1])
                  THEN Balances[2] ELSE Balances[1]
       IN src' = [src EXCEPT !["account_snapshots"] =
                     [rows EXCEPT ![1] = SetField(rows[1], "balance", Num(cur))]]
    /\ SourceChanged
    /\ UNCHANGED <<histVars, answerVars, documents, ix>>

DeleteSnapshot ==
    /\ audit.changes < MaxChanges
    /\ Len(src["account_snapshots"]) = 2
    /\ src' = [src EXCEPT !["account_snapshots"] = <<@[1]>>]
    /\ SourceChanged
    /\ UNCHANGED <<histVars, answerVars, documents, ix>>

InsertSnapshot ==
    /\ audit.changes < MaxChanges
    /\ Len(src["account_snapshots"]) = 1
    /\ src' = [src EXCEPT !["account_snapshots"] =
                  Append(@, SnapshotRow("s2", "2025-04-30", Balances[2]))]
    /\ SourceChanged
    /\ UNCHANGED <<histVars, answerVars, documents, ix>>

\* a mutant of Advance: only the first row of a table is processed
AdvanceFirstOnly(x) ==
    IF x.i = 0 /\ Len(x.rows) > 0
    THEN [x EXCEPT !.pc = "serialize", !.i = 1,
                   !.content = <<>>, !.embedding = <<>>, !.attempt = 0]
    ELSE IF x.t < Len(TABLES_TO_EMBED)
    THEN [x EXCEPT !.pc = "fetch", !.t = @ + 1, !.rows = <<>>, !.i = 0,
                   !.content = <<>>, !.embedding = <<>>, !.attempt = 0]
    ELSE [x EXCEPT !.pc = "complete", !.rows = <<>>, !.i = 0,
                   !.content = <<>>, !.embedding = <<>>, !.attempt = 0]

\* a mutant of Advance: after a table the next but one is read
AdvanceSkipTable(x) ==
    IF x.i < Len(x.rows)
    THEN [x EXCEPT !.pc = "serialize", !.i = @ + 1,
                   !.content = <<>>, !.embedding = <<>>, !.attempt = 0]
    ELSE IF x.t + 1 < Len(TABLES_TO_EMBED)
    THEN [x EXCEPT !.pc = "fetch", !.t = @ + 2, !.rows = <<>>, !.i = 0,
                   !.content = <<>>, !.embedding = <<>>, !.attempt = 0]
    ELSE [x EXCEPT !.pc = "complete", !.rows = <<>>, !.i = 0,
                   !.content = <<>>, !.embedding = <<>>, !.attempt = 0]

\* the next thing embedTable / run do after a row, or after the fetch
Advance(x) ==
    IF x.i < Len(x.rows)
    THEN [x EXCEPT !.pc = "serialize", !.i = @ + 1,
                   !.content = <<>>, !.embedding = <<>>, !.attempt = 0]
    ELSE IF x.t < Len(TABLES_TO_EMBED)
    THEN [x EXCEPT !.pc = "fetch", !.t = @ + 1, !.rows = <<>>, !.i = 0,
                   !.content = <<>>, !.embedding = <<>>, !.attempt = 0]
    ELSE [x EXCEPT !.pc = "complete", !.rows = <<>>, !.i = 0,
                   !.content = <<>>, !.embedding = <<>>, !.attempt = 0]

\* the error object a failed call hands back (error, acctErr, upsertErr, or
\* the rejection of the embeddings request); it is thrown as it is, and
\* nothing of the row being processed is added to it
ErrorFrom(call) == [from |-> call, table |-> "", source_id |-> Undefined]

\* a mutant of Abort: log the failure, skip the row, go on
SkipAndContinue(x, err) == Advance([x EXCEPT !.err = err])

\* throw: the error leaves embedTable and run, run().catch exits with 1
Abort(x, err) == [x EXCEPT !.pc = "failed", !.err = err, !.thrown = ErrorFrom(err)]

\* bookkeeping when the run reaches x2 with the documents docs2
Audited(x2, docs2, key) ==
    LET a == [audit EXCEPT !.indexed = @ \cup key] IN
    IF x2.pc # "complete" THEN a
    ELSE IF a.baseOk THEN [a EXCEPT !.baseRuns = IF @ < 2 THEN @ + 1 ELSE @]
    ELSE IF ~a.tainted
    THEN [a EXCEPT !.baseOk = TRUE, !.baseDocs = docs2, !.baseRuns = 1]
    ELSE a

\* node embedAll.js
StartRun ==
    /\ ix.pc \in {"idle", "complete", "failed"}
    /\ ix.run < MaxRuns
    /\ ix' = [NoRun EXCEPT !.pc = "fetch", !.run = ix.run + 1, !.t = 1]
    /\ audit' = [audit EXCEPT !.tainted = FALSE, !.docsAtStart = documents,
                           !.fetched = {}, !.facts = {}]
    /\ UNCHANGED <<histVars, answerVars, src, documents>>

\* embedTable: supabaseAdmin.from(table).select('*')
FetchTable ==
    /\ ix.pc = "fetch"
    /\ \/ LET x2 == Advance([ix EXCEPT !.rows = src[TABLES_TO_EMBED[ix.t]],
                                       !.i = 0, !.calls = @ + 1])
              rows == src[TABLES_TO_EMBED[ix.t]]
          IN /\ ix' = x2
             /\ audit' = [Audited(x2, documents, {}) EXCEPT !.fetched =
                             @ \cup {<<TABLES_TO_EMBED[ix.t], rows[i]>> :
                                        i \in 1..Len(rows)}]
       \/ /\ ix' = Abort([ix EXCEPT !.calls = @ + 1], "fetch")
          /\ audit' = audit
    /\ UNCHANGED <<histVars, answerVars, src, documents>>

\* .from('accounts').select('name, type').eq('id', id).single()
FindAccount(id) ==
    LET hits == {i \in 1..Len(src["accounts"]) : Get(src["accounts"][i], "id") = id}
    IN IF Cardinality(hits) = 1
       THEN [error |-> FALSE, row |-> src["accounts"][CHOOSE i \in hits : TRUE]]
       ELSE [error |-> TRUE, row |-> <<>>]

\* embedTable: const content = await serialize(table, row)
SerializeRow ==
    /\ ix.pc = "serialize"
    /\ LET table == TABLES_TO_EMBED[ix.t]
           row == ix.rows[ix.i]
           acct == FindAccount(Get(row, "account_id"))
           content == serialize(table, row, acct.row)
       IN \/ /\ table = "account_snapshots" => ~acct.error
             /\ ix' = [ix EXCEPT !.pc = "embed", !.calls = @ + 1,
                                 !.content = content]
             /\ audit' = [audit EXCEPT
                             !.facts = @ \cup {<<table, Get(row, "id"), content>>},
                             !.said = @ \cup {<<table, row, content>>}]
          \/ /\ table = "account_snapshots"
             /\ ix' = Abort([ix EXCEPT !.calls = @ + 1], "serialize")
             /\ audit' = audit
    /\ UNCHANGED <<histVars, answerVars, src, documents>>

\* embedTable: const embedding = await makeEmbedding(content)
EmbedRow ==
    /\ ix.pc = "embed"
    /\ \/ ix' = [ix EXCEPT !.pc = "upsert", !.calls = @ + 1, !.attempt = @ + 1,
                           !.embedding = makeEmbedding(ix.content)]
       \/ ix' = Abort([ix EXCEPT !.calls = @ + 1, !.attempt = @ + 1], "embed")
    /\ UNCHANGED <<histVars, answerVars, src, documents, audit>>

\* embedTable: upsert into documents
UpsertRow ==
    /\ ix.pc = "upsert"
    /\ LET table == TABLES_TO_EMBED[ix.t]
           row == ix.rows[ix.i]
           doc == DocOf(table, row, ix.content, ix.embedding)
           docs2 == Upsert(documents, doc)
           x2 == Advance([ix EXCEPT !.calls = @ + 1])
       IN \/ /\ documents' = docs2
             /\ ix' = x2
             /\ audit' = Audited(x2, docs2, {<<table, Get(row, "id")>>})
          \/ /\ ix' = Abort([ix EXCEPT !.calls = @ + 1], "upsert")
             /\ UNCHANGED <<documents, audit>>
    /\ UNCHANGED <<histVars, answerVars, src>>

-----------------------------------------------------------------------------
(* Initial values of each part *)

InitHistory ==
    /\ histFile = FileAbsent
    /\ lastCall = NoCall

InitAnswer(shells) ==
    /\ pc = [p \in shells |-> "idle"]
    /\ op = [p \in shells |-> NoOp]
    /\ nextOp = 1
    /\ stale = [p \in shells |-> {}]
    /\ lastWriter = "none"

InitIndexIdle ==
    /\ src = InitSource
    /\ documents = <<>>
    /\ ix = NoRun
    /\ audit = NoAudit

-----------------------------------------------------------------------------
(* SpecHistory: the history store called directly *)

InitH == InitHistory /\ InitAnswer({}) /\ InitIndexIdle

NextH == CallSaveHistory \/ CallLoadHistory

SpecHistory == InitH /\ [][NextH]_vars

-----------------------------------------------------------------------------
(* Spec: concurrent question-answering operations *)

\* no history yet, or the history five earlier exchanges of u1 left
InitFiles == {FileAbsent, FileJson([s \in {"u1"} |-> TurnSeq(0, HISTORY_LIMIT)])}

\* the indexer is idle and has filled the documents table
InitIndexed(stores) ==
    /\ src = InitSource
    /\ documents \in stores
    /\ ix = NoRun
    /\ audit = NoAudit

Init ==
    /\ histFile \in InitFiles
    /\ lastCall = NoCall
    /\ InitAnswer({"sh1"})
    /\ InitIndexed({SmallStore, BigStore})

Next == \E p \in Shells : ShellStep(p)

Spec == Init /\ [][Next]_vars

\* two shells, no history file yet, nothing indexed yet
InitShells ==
    /\ histFile = FileAbsent
    /\ lastCall = NoCall
    /\ InitAnswer({"sh1", "sh2"})
    /\ InitIndexIdle

SpecShells == InitShells /\ [][Next]_vars

-----------------------------------------------------------------------------
(* SpecIndexer: runs of the indexer while the source rows change *)

InitI == InitHistory /\ InitAnswer({}) /\ InitIndexIdle

NextI ==
    \/ StartRun
    \/ FetchTable
    \/ SerializeRow
    \/ EmbedRow
    \/ UpsertRow
    \/ RenameAccount
    \/ ChangeBalance
    \/ DeleteSnapshot
    \/ InsertSnapshot

SpecIndexer == InitI /\ [][NextI]_vars

-----------------------------------------------------------------------------
(* SpecSerialize: runs of the indexer over one row whose fields are present,
   null or absent *)

\* a JSON object value, such as the metadata of a seeded row
Obj(text) == [t |-> "obj", v |-> <<text>>]

\* a field with a value, the field with null, and no such field
Variants(key, value) == {<<Field(key, value)>>, <<Field(key, Null)>>, <<>>}

InputRows ==
    {<<"accounts",
       <<Field("id", Str("a1")), Field("user_id", Str("u1"))>> \o n
       \o <<Field("type", Str("cash")),
            Field("metadata", Obj("{\"source\":\"seed\"}")),
            Field("created_at", Str("2025-03-01")),
            Field("updated_at", Str("2025-04-01"))>> >> :
        n \in Variants("name", Str("Main Checking"))}
    \cup
    {<<"account_snapshots",
       <<Field("id", Str("s1")), Field("user_id", Str("u1")),
         Field("account_id", Str("a1"))>> \o d \o b>> :
        d \in Variants("snapshot_date", Str("2025-03-31")),
        b \in Variants("balance", Num(15900))}
    \cup
    {<<"monthly_expense_snapshots",
       <<Field("id", Str("m1")), Field("user_id", Str("u1"))>> \o ps
       \o <<Field("period_end", Str("2025-01-31"))>> \o te>> :
        ps \in Variants("period_start", Str("2025-01-01")),
        te \in Variants("total_expense", Num(5200))}
    \cup
    {<<"financial_kb",
       <<Field("id", Str("k1"))>> \o ti
       \o <<Field("content", Str("Runway = Current Cash Balance / Monthly Burn Rate"))>> >> :
        ti \in Variants("title", Str("Runway"))}

\* the store holding the input row and, for the lookup, the account a1
InputSource(tr) ==
    [t \in {TABLES_TO_EMBED[i] : i \in 1..Len(TABLES_TO_EMBED)} |->
        IF t = tr[1] THEN <<tr[2]>>
        ELSE IF t = "accounts" THEN <<AccountRow(AccountNames[1])>>
        ELSE <<>>]

InitS ==
    /\ InitHistory
    /\ InitAnswer({})
    /\ src \in {InputSource(tr) : tr \in InputRows}
    /\ documents = <<>>
    /\ ix = NoRun
    /\ audit = NoAudit

NextS ==
    \/ StartRun
    \/ FetchTable
    \/ SerializeRow
    \/ EmbedRow
    \/ UpsertRow

SpecSerialize == InitS /\ [][NextS]_vars

-----------------------------------------------------------------------------
(* C1: after saveHistory(scope, turns) returns, the persisted history of the
   scope and the result of loadHistory(scope) are the last HISTORY_LIMIT
   turns of the given sequence, in their order: of HISTORY_LIMIT + k turns
   the k oldest are dropped. *)
C1_HistoryBound ==
    (lastCall.call = "save" /\ ~lastCall.raised) =>
        LET n == Len(lastCall.turns)
            kept == IF n <= HISTORY_LIMIT THEN lastCall.turns
                    ELSE [i \in 1..HISTORY_LIMIT |->
                            lastCall.turns[n - HISTORY_LIMIT + i]]
        IN /\ histFile.kind = "json"
           /\ lastCall.userId \in DOMAIN histFile.all
           /\ histFile.all[lastCall.userId] = kept
           /\ loadHistory(histFile, lastCall.userId, "ok").turns = kept
           /\ Len(kept) <= HISTORY_LIMIT

\* a save of 12 turns has just returned (Scenario D) and left 10 of them
C1_Witness ==
    /\ lastCall.call = "save"
    /\ ~lastCall.raised
    /\ Len(lastCall.turns) = HISTORY_LIMIT + 2
    /\ histFile.kind = "json"
    /\ Len(histFile.all[lastCall.userId]) = HISTORY_LIMIT
    /\ histFile.all[lastCall.userId][1] = lastCall.turns[3]

(* C6: loadHistory(scope) never raises: it returns the empty sequence when
   the history file does not exist, cannot be read, cannot be parsed, or
   holds no entry for the scope; otherwise it returns the last HISTORY_LIMIT
   persisted turns of the scope, at most HISTORY_LIMIT of them. *)
C6_LoadNeverRaises ==
    lastCall.call = "load" =>
        /\ ~lastCall.raised
        /\ IF \/ histFile.kind = "absent"
              \/ histFile.kind = "corrupt"
              \/ lastCall.rio = "err"
              \/ lastCall.userId \notin DOMAIN histFile.all
           THEN lastCall.turns = <<>>
           ELSE LET stored == histFile.all[lastCall.userId]
                    n == Len(stored)
                    m == IF n <= HISTORY_LIMIT THEN n ELSE HISTORY_LIMIT
                IN /\ Len(lastCall.turns) = m
                   /\ m <= HISTORY_LIMIT
                   /\ \A i \in 1..m : lastCall.turns[i] = stored[n - m + i]

\* the read failed on a file that holds a full history for the scope, and
\* loadHistory returned the empty sequence
C6_Witness ==
    /\ lastCall.call = "load"
    /\ lastCall.rio = "err"
    /\ ~lastCall.raised
    /\ histFile.kind = "json"
    /\ lastCall.userId \in DOMAIN histFile.all
    /\ Len(histFile.all[lastCall.userId]) = HISTORY_LIMIT
    /\ lastCall.turns = <<>>

(* C7: a saveHistory(scope, turns) that returns replaces only the entry of
   scope: every other scope that had a persisted history before the save has
   the same persisted history after it. *)
C7_SaveFrame ==
    [][(lastCall'.call = "save" /\ ~lastCall'.raised /\ histFile.kind = "json") =>
          \A s \in (DOMAIN histFile.all) \ {lastCall'.userId} :
              /\ histFile'.kind = "json"
              /\ s \in DOMAIN histFile'.all
              /\ histFile'.all[s] = histFile.all[s]]_vars

-----------------------------------------------------------------------------
(* Claims about the question-answering operation *)

\* the newest n elements of seq, oldest first
Newest(seq, n) ==
    LET m == IF Len(seq) <= n THEN Len(seq) ELSE n
    IN [i \in 1..m |-> seq[Len(seq) - m + i]]

\* the exchange an operation adds to the history
Exchange(o) == <<[role |-> "user", content |-> o.question],
                 [role |-> "assistant", content |-> o.reply]>>

Upstream == {"kb", "embed", "search", "llm"}

\* the step of shell p in which its operation ends
Ends(p) == pc[p] # "exited" /\ pc'[p] = "exited"

\* a failure of context assembly or of the model call leaves the file as it
\* was and reaches the caller; no step before the save writes the file
UpstreamFailureKeepsHistory(p) ==
    /\ (pc[p] \in Upstream /\ Ends(p)) =>
          /\ histFile' = histFile
          /\ op'[p].exit = 1
          /\ op'[p].result = <<>>
    /\ (pc[p] # "saveWrite" /\ pc'[p] # pc[p]) => histFile' = histFile

\* the persisted history of the scope is the loaded one plus the exchange
PersistedExchange(p) ==
    /\ histFile'.kind = "json"
    /\ op[p].scope \in DOMAIN histFile'.all
    /\ histFile'.all[op[p].scope] =
          Newest(op[p].history \o Exchange(op[p]), HISTORY_LIMIT)

(* C2 (as amended): if context assembly or the model call fails, the
   persisted history is left as it was and the failure reaches the caller;
   if they succeed and the write of the history file succeeds too, the
   persisted history of the scope becomes the loaded history followed by the
   user turn and the assistant turn, trimmed to the last HISTORY_LIMIT; if
   the write fails, nothing new is persisted and the operation fails. *)
C2_PersistIffAllSucceed ==
    [][\A p \in Shells :
          /\ UpstreamFailureKeepsHistory(p)
          /\ (pc[p] = "saveWrite" /\ Ends(p) /\ op'[p].exit = 0) =>
                PersistedExchange(p)
          /\ (pc[p] = "saveWrite" /\ Ends(p) /\ op'[p].exit # 0) =>
                /\ histFile' \in {histFile, FileCorrupt}
                /\ op'[p].exit = 1]_vars

(* C2 (as claimed): if context assembly or the model call fails, the
   persisted history is left as it was and the failure reaches the caller;
   if they all succeed, the persisted history of the scope becomes the loaded
   history followed by the user turn and the assistant turn, trimmed to the
   last HISTORY_LIMIT. *)
C2_AsClaimed ==
    [][\A p \in Shells :
          /\ UpstreamFailureKeepsHistory(p)
          /\ (pc[p] = "saveWrite" /\ Ends(p)) => PersistedExchange(p)]_vars

\* an operation that loaded a full history has answered, and the file holds
\* that history without its oldest exchange, followed by the new one
C2_Witness ==
    \E p \in Shells :
        /\ pc[p] = "exited"
        /\ op[p].exit = 0
        /\ Len(op[p].history) = HISTORY_LIMIT
        /\ histFile.kind = "json"
        /\ histFile.all[op[p].scope] =
              SubSeq(op[p].history, 3, HISTORY_LIMIT) \o Exchange(op[p])

\* the exchange of operation o is in the persisted history of its scope
Persisted(o) ==
    /\ histFile.kind = "json"
    /\ o.scope \in DOMAIN histFile.all
    /\ \E i \in 1..Len(histFile.all[o.scope]) :
          histFile.all[o.scope][i] =
              [role |-> "user", content |-> QuestionText(o.id)]

(* C8: lost updates.  Whenever an operation completes its save after other
   operations completed theirs behind its back (same scope: after it loaded
   its history; any scope: between the read and the write of its save), the
   exchanges of those operations are missing from the persisted state,
   although each of them returned its answer. *)
C8_StaleSaveLosesUpdates ==
    lastWriter # "none" =>
        \A o \in stale[lastWriter] : ~Persisted(o)

\* one save has wiped the exchange of a completed operation of its own scope
\* and the exchange of a completed operation of another scope
C8_Witness ==
    /\ lastWriter # "none"
    /\ pc[lastWriter] = "exited"
    /\ op[lastWriter].exit = 0
    /\ \E o1, o2 \in stale[lastWriter] :
          /\ o1.scope = op[lastWriter].scope
          /\ o2.scope # op[lastWriter].scope
          /\ ~Persisted(o1)
          /\ ~Persisted(o2)

(* C9: once the model has produced an answer, the caller receives it, also
   when the save of the history fails: the operation does not fail and the
   answer is not discarded. *)
C9_AnswerSurvivesSaveFailure ==
    \A p \in Shells :
        (pc[p] = "exited" /\ op[p].replied) =>
            /\ op[p].result = op[p].reply
            /\ op[p].exit = 0

-----------------------------------------------------------------------------
(* Helpers of the indexer properties *)

\* the positions of the documents of docs stored under (table, id)
DocsFor(docs, table, id) ==
    {i \in 1..Len(docs) : docs[i].source_table = table /\ docs[i].source_id = id}

\* the (table, row) pairs of the source as it is now
SourceRows ==
    UNION {{<<t, src[t][i]>> : i \in 1..Len(src[t])} : t \in DOMAIN src}

\* the Fact of a row as the source is now
Fact(table, row) == serialize(table, row, FindAccount(Get(row, "account_id")).row)

-----------------------------------------------------------------------------
(* C3: in every reachable state, whatever runs (complete or aborted) and
   source changes came before, no two documents have the same
   (source_table, source_id), and every row that was upserted successfully
   has exactly one document *)
C3_OneDocumentPerKey ==
    /\ \A i, j \in 1..Len(documents) : SameKey(documents[i], documents[j]) => i = j
    /\ \A key \in audit.indexed :
          Cardinality(DocsFor(documents, key[1], key[2])) = 1

\* a second run, aborted after it upserted rows a first run had upserted,
\* with a source change in between
C3_Witness ==
    /\ ix.run = 2
    /\ ix.pc = "failed"
    /\ ix.t = Len(TABLES_TO_EMBED)
    /\ audit.changes >= 1
    /\ Cardinality(audit.indexed) = 5
    /\ Len(documents) = 5

-----------------------------------------------------------------------------
(* C4: when the source rows have not changed since the start of a complete
   run, the documents after a later complete run are the documents after
   that first run: same number, same content, same embedding *)
C4_Idempotent ==
    (ix.pc = "complete" /\ audit.baseOk /\ audit.baseRuns >= 2)
        => documents = audit.baseDocs

\* a second complete run over unchanged rows, five documents rewritten
C4_Witness ==
    /\ ix.pc = "complete"
    /\ audit.baseOk
    /\ audit.baseRuns = 2
    /\ Len(audit.baseDocs) = 5
    /\ documents = audit.baseDocs

-----------------------------------------------------------------------------
(* C5: after a run that completes with no source change during it, every
   source row has exactly one document, holding the Fact of the row as it
   is now and the embedding of that Fact; what a document of such a row
   held before and no longer matches is stored nowhere under that key; and
   when every source row had a document before the run, the number of
   documents is what it was before the run *)
C5_UpdateInPlace ==
    (ix.pc = "complete" /\ ~audit.tainted) =>
        /\ \A tr \in SourceRows :
              LET hits == DocsFor(documents, tr[1], Get(tr[2], "id"))
                  old  == DocsFor(audit.docsAtStart, tr[1], Get(tr[2], "id"))
              IN /\ Cardinality(hits) = 1
                 /\ \A i \in hits :
                       /\ documents[i].content = Fact(tr[1], tr[2])
                       /\ documents[i].embedding = makeEmbedding(Fact(tr[1], tr[2]))
                 /\ \A k \in old :
                       audit.docsAtStart[k].content # Fact(tr[1], tr[2])
                           => \A i \in hits :
                                 documents[i].content # audit.docsAtStart[k].content
        /\ (\A tr \in SourceRows :
               DocsFor(audit.docsAtStart, tr[1], Get(tr[2], "id")) # {})
              => Len(documents) = Len(audit.docsAtStart)

\* a re-run completed after the account was renamed: the account's
\* document held the old Fact before the run
C5_Witness ==
    /\ ix.pc = "complete"
    /\ ~audit.tainted
    /\ ix.run >= 2
    /\ Len(documents) = Len(audit.docsAtStart)
    /\ \E tr \in SourceRows :
          /\ tr[1] = "accounts"
          /\ \E k \in DocsFor(audit.docsAtStart, tr[1], Get(tr[2], "id")) :
                audit.docsAtStart[k].content # Fact(tr[1], tr[2])

-----------------------------------------------------------------------------
(* C10: a failure of the fetch, the serialization, the embedding or the
   upsert ends the run at that row: the failing step writes no document,
   the run is failed and not complete, and until another run is started
   nothing more is serialized, embedded or upserted *)
C10_FailFast ==
    [][/\ ix'.err # "none" => ix'.pc = "failed"
       /\ (ix.pc # "failed" /\ ix'.pc = "failed") =>
             /\ ix'.err # "none"
             /\ documents' = documents
             /\ ix'.t = ix.t /\ ix'.i = ix.i
       /\ ix.pc = "failed" =>
             /\ documents' = documents
             /\ \/ ix' = ix
                \/ ix'.run = ix.run + 1 /\ ix'.pc = "fetch"]_vars

\* the upsert of a row failed: the row has an older document with another
\* content, and rows and tables remain after it
C10_Witness ==
    /\ ix.pc = "failed"
    /\ ix.err = "upsert"
    /\ ix.i < Len(ix.rows)
    /\ ix.t < Len(TABLES_TO_EMBED)
    /\ \E k \in DocsFor(documents, TABLES_TO_EMBED[ix.t], Get(ix.rows[ix.i], "id")) :
          documents[k].content # ix.content

-----------------------------------------------------------------------------
(* C11: when a run has finished without failure, every row the store
   returned for a table of the list during that run has a document under
   (table, row id) whose content is what serialize returned for that row in
   the run and whose embedding is makeEmbedding of that content; for a table
   without a lookup that content is serialize(table, row) *)
C11_Completeness ==
    ix.pc = "complete" =>
        \A tr \in audit.fetched :
            \E f \in audit.facts :
                /\ f[1] = tr[1] /\ f[2] = Get(tr[2], "id")
                /\ tr[1] # "account_snapshots" => f[3] = serialize(tr[1], tr[2], <<>>)
                /\ \E i \in DocsFor(documents, tr[1], Get(tr[2], "id")) :
                      /\ documents[i].content = f[3]
                      /\ documents[i].embedding = makeEmbedding(f[3])

\* a complete run that was handed five rows, two of them in one table,
\* while a source row changed during the run
C11_Witness ==
    /\ ix.pc = "complete"
    /\ Cardinality(audit.fetched) = 5
    /\ audit.tainted
    /\ \E tr \in audit.fetched : tr[1] = "account_snapshots" /\ Get(tr[2], "id") = Str("s2")

-----------------------------------------------------------------------------
(* C12: serialize returns the same Fact for the same (table, row) whatever
   happens in the store between two calls: any two calls that returned,
   in one run or in two, with the identical table and row returned the
   identical Fact *)
C12_SerializeDeterministic ==
    \A a, b \in audit.said :
        (a[1] = b[1] /\ a[2] = b[2]) => a[3] = b[3]

-----------------------------------------------------------------------------
(* C13: for an account_snapshots row whose account has name n and type t,
   with snapshot_date d and balance b, serialize returns exactly
   Account Balance | account_name="n" | account_type="t" | as_of="d" | cash_balance=b
   and the account's identifier is not in it *)

RECURSIVE Text(_)
\* the pieces of a text as one string
Text(pieces) ==
    IF pieces = <<>> THEN ""
    ELSE IF Len(pieces) = 1 THEN pieces[1]
    ELSE LET h == Len(pieces) \div 2
         IN Text(SubSeq(pieces, 1, h)) \o Text(SubSeq(pieces, h + 1, Len(pieces)))

BalanceFact(n, t, d, b) ==
    "Account Balance | account_name=\"" \o n \o "\" | account_type=\"" \o t
    \o "\" | as_of=\"" \o d \o "\" | cash_balance=" \o b

ScenarioA ==
    "Account Balance | account_name=\"Main Checking\" | account_type=\"cash\" | as_of=\"2025-03-31\" | cash_balance=15900"

C13_BalanceTemplate ==
    [][(/\ ix.pc = "serialize"
        /\ ix'.pc = "embed"
        /\ TABLES_TO_EMBED[ix.t] = "account_snapshots") =>
          LET row  == ix.rows[ix.i]
              acct == FindAccount(Get(row, "account_id")).row
              n == Text(Get(acct, "name").v)
              t == Text(Get(acct, "type").v)
              d == Text(Get(row, "snapshot_date").v)
              b == Text(Get(row, "balance").v)
          IN /\ Text(ix'.content) = BalanceFact(n, t, d, b)
             /\ (n = "Main Checking" /\ t = "cash" /\ d = "2025-03-31" /\ b = "15900")
                   => Text(ix'.content) = ScenarioA
             /\ \A k \in 1..Len(ix'.content) :
                   <<ix'.content[k]>> # Get(row, "account_id").v]_vars

\* serialize has just returned the Fact of Scenario A
C13_Witness ==
    /\ ix.pc = "embed"
    /\ TABLES_TO_EMBED[ix.t] = "account_snapshots"
    /\ Text(ix.content) = ScenarioA

-----------------------------------------------------------------------------
(* C14: when the account lookup of an account_snapshots row fails, no Fact
   is produced for the row and the error that ends the run names the table
   and the row that was being serialized *)
C14_ErrorIdentifiesRow ==
    (ix.pc = "failed" /\ ix.err = "serialize") =>
        /\ ix.content = <<>>
        /\ ix.thrown.table = TABLES_TO_EMBED[ix.t]
        /\ ix.thrown.source_id = Get(ix.rows[ix.i], "id")

-----------------------------------------------------------------------------
(* C15: the request built for the language model is the history turns
   stored for the scope (the newest HISTORY_LIMIT of them, in stored order,
   or none when the file cannot be read), then exactly one system message
   with the policy text, then one system message with the context, then the
   user message with the question as last element; it has at most
   HISTORY_LIMIT + 3 messages and the policy message follows every history
   turn *)
C15_MessageOrder ==
    [][\A p \in Shells :
          (pc[p] = "load" /\ pc'[p] = "llm") =>
             LET m == op'[p].messages
                 n == Len(m)
                 stored == IF histFile.kind = "json" /\ op[p].scope \in DOMAIN histFile.all
                           THEN histFile.all[op[p].scope] ELSE <<>>
             IN /\ n >= 3 /\ n <= HISTORY_LIMIT + 3
                /\ SubSeq(m, 1, n - 3) \in {<<>>, Newest(stored, HISTORY_LIMIT)}
                /\ m[n - 2] = [role |-> "system", content |-> policyPrompt]
                /\ m[n - 1] = [role |-> "system", content |-> op[p].context]
                /\ m[n] = [role |-> "user", content |-> op[p].question]
                /\ Cardinality({i \in 1..n : m[i].content = policyPrompt}) = 1
                /\ \A i \in 1..(n - 3) : m[i].role \in {"user", "assistant"}]_vars

\* a request of HISTORY_LIMIT + 3 messages is about to be sent
C15_Witness ==
    \E p \in Shells :
        /\ pc[p] = "llm"
        /\ Len(op[p].messages) = HISTORY_LIMIT + 3
        /\ op[p].messages[1] = NthTurn(1)
        /\ op[p].messages[HISTORY_LIMIT + 1].content = policyPrompt

-----------------------------------------------------------------------------
(* C16: the context block fetchContext returns has both sections, formulas
   then data rows, also with an empty KB or an empty search result; the
   formulas section holds every KB entry whatever the question, the data
   section the content of every returned document, verbatim and in the
   returned order, with the line --- between them *)

RECURSIVE StrJoin(_, _)
\* the strings of a sequence as one string, sep between them
StrJoin(strs, sep) ==
    IF strs = <<>> THEN ""
    ELSE IF Len(strs) = 1 THEN strs[1]
    ELSE LET h == Len(strs) \div 2
         IN StrJoin(SubSeq(strs, 1, h), sep) \o sep
            \o StrJoin(SubSeq(strs, h + 1, Len(strs)), sep)

ExpectedContext(defs, rows) ==
    "--- FINANCIAL FORMULAS ---\n"
    \o StrJoin([i \in 1..Len(defs) |->
                  "**" \o Text(defs[i].title) \o "**: " \o Text(defs[i].content)], "\n")
    \o "\n\n--- USER DATA ROWS ---\n"
    \o StrJoin([i \in 1..Len(rows) |-> Text(rows[i].content)], "\n---\n")

C16_ContextSections ==
    \A p \in Shells :
        pc[p] = "load" =>
            /\ Text(op[p].context) = ExpectedContext(op[p].defs, op[p].rows)
            /\ (op[p].defs = <<>> /\ op[p].rows = <<>>) =>
                  Text(op[p].context) =
                      "--- FINANCIAL FORMULAS ---\n\n\n--- USER DATA ROWS ---\n"

\* a context of two KB entries and two documents has been assembled
C16_Witness ==
    \E p \in Shells :
        /\ pc[p] = "load"
        /\ Len(op[p].defs) = 2
        /\ Len(op[p].rows) = 2
        /\ Text(op[p].context) =
              "--- FINANCIAL FORMULAS ---\n"
              \o "**Runway**: Runway in months = Current Cash Balance / Monthly Burn Rate.\n"
              \o "**Burn Rate**: Burn Rate = Cash Spent / Number of Months.\n\n"
              \o "--- USER DATA ROWS ---\n"
              \o "Account Balance | cash_balance=15900\n---\n"
              \o "ACCOUNTS | name=\"Main Checking\""

-----------------------------------------------------------------------------
(* C17: when the KB read, the embedding of the question or the similarity
   search fails, no context block is returned, the failure reaches the
   caller (exit code 1, nothing printed), and the language model is not
   called for that question *)
C17_AllOrNothing ==
    [][\A p \in Shells :
          /\ (pc[p] \in {"kb", "embed", "search"} /\ op'[p].failedAt # "") =>
                /\ pc'[p] = "exited"
                /\ op'[p].failedAt = pc[p]
                /\ op'[p].context = <<>> /\ op'[p].messages = <<>>
                /\ op'[p].exit = 1 /\ op'[p].result = <<>>
                /\ ~op'[p].replied
          /\ (op[p].failedAt \in {"kb", "embed", "search"}) =>
                (pc'[p] \in {"exited", "idle"} /\ histFile' = histFile)]_vars

\* the similarity search failed after the KB was read
C17_Witness ==
    \E p \in Shells :
        /\ pc[p] = "exited"
        /\ op[p].failedAt = "search"
        /\ op[p].exit = 1
        /\ op[p].context = <<>>

-----------------------------------------------------------------------------
(* C18: the documents that reach the prompt all belong to the requesting
   scope, are at most MATCH_COUNT, each with similarity at least
   MATCH_THRESHOLD, in non-increasing similarity order; the data section of
   the context is their content in that order, none added, none dropped *)
C18_RetrievedDocuments ==
    \A p \in Shells :
        pc[p] = "load" =>
            LET rows == op[p].rows IN
            /\ Len(rows) <= MATCH_COUNT
            /\ \A i \in 1..Len(rows) :
                  /\ rows[i].user_id = [t |-> "str", v |-> <<op[p].scope>>]
                  /\ rows[i].similarity >= MATCH_THRESHOLD
                  /\ \A j \in i..Len(rows) : rows[i].similarity >= rows[j].similarity
            /\ op[p].context =
                  <<"--- FINANCIAL FORMULAS ---", "\n">>
                  \o Join([i \in 1..Len(op[p].defs) |->
                             <<"**">> \o op[p].defs[i].title \o <<"**: ">>
                             \o op[p].defs[i].content], <<"\n">>)
                  \o <<"\n", "\n", "--- USER DATA ROWS ---", "\n">>
                  \o Join([i \in 1..Len(rows) |-> rows[i].content], <<"\n---\n">>)

\* MATCH_COUNT documents of unequal similarity reached the prompt while the
\* store holds more documents of the scope, and documents of another scope
C18_Witness ==
    \E p \in Shells :
        /\ pc[p] = "load"
        /\ Len(op[p].rows) = MATCH_COUNT
        /\ op[p].rows[1].similarity > op[p].rows[MATCH_COUNT].similarity
        /\ Cardinality({i \in 1..Len(documents) :
                          documents[i].user_id = [t |-> "str", v |-> <<op[p].scope>>]})
              > MATCH_COUNT
        /\ \E i \in 1..Len(documents) :
              documents[i].user_id # [t |-> "str", v |-> <<op[p].scope>>]

-----------------------------------------------------------------------------
(* C19: when the similarity search returned no document and the KB is
   empty, the answer is exactly the refusal string of the policy message *)
C19_RagWall ==
    [][\A p \in Shells :
          (/\ pc[p] = "llm" /\ pc'[p] = "saveRead"
           /\ op[p].defs = <<>> /\ op[p].rows = <<>>)
              => op'[p].reply = Refusal]_vars

-----------------------------------------------------------------------------
(* C20: the process exits with 0 exactly when an answer was produced and
   printed; it exits with 1 when the question is missing and when the
   greeting read, the KB read, the embedding, the similarity search or the
   language model fails; with a missing question nothing is embedded, the
   language model is not called and the history file is not written *)
C20_ExitCodes ==
    [][\A p \in Shells :
          /\ Ends(p) =>
                /\ op'[p].exit \in {0, 1}
                /\ op'[p].exit = 0 <=>
                      (op'[p].replied /\ op'[p].result = op'[p].reply
                       /\ op'[p].result # <<>>)
                /\ op'[p].exit = 1 => op'[p].result = <<>>
                /\ pc[p] \in {"greet", "argv", "kb", "embed", "search", "llm"}
                      => op'[p].exit = 1
          /\ (pc[p] = "argv" /\ op[p].question = <<>>) =>
                (Ends(p) /\ op'[p].failedAt = "usage")
          /\ (pc[p] = "argv" /\ op[p].question # <<>>) => pc'[p] = "kb"
          /\ (pc[p] # "idle" /\ op[p].question = <<>>) =>
                /\ pc'[p] \in {"greet", "argv", "exited", "idle"}
                /\ histFile' = histFile]_vars

\* one command ended with 0 after printing its answer
C20_Witness ==
    \E p \in Shells :
        /\ pc[p] = "exited"
        /\ op[p].exit = 0
        /\ op[p].result # <<>>
        /\ nextOp > 2

-----------------------------------------------------------------------------
(* C21: a failed embedding call is tried again, and the embedding of a row
   fails only after more than one attempt, with an error that names the
   table and the row being embedded *)
C21_RetryThenNamedError ==
    (ix.pc = "failed" /\ ix.err = "embed") =>
        /\ ix.attempt > 1
        /\ ix.thrown.table = TABLES_TO_EMBED[ix.t]
        /\ ix.thrown.source_id = Get(ix.rows[ix.i], "id")

-----------------------------------------------------------------------------
(* Helpers of the properties about the order of the external calls *)

IsPrefix(a, b) == Len(a) <= Len(b) /\ a = SubSeq(b, 1, Len(a))

Count(seq, x) == Cardinality({i \in 1..Len(seq) : seq[i] = x})

\* the calls of an operation after the greeting
AfterGreeting(o) == IF o.calls = <<>> THEN <<>> ELSE Tail(o.calls)

(* C22 (as amended): within one operation the external steps occur in the
   order KB read, query embedding, similarity search, history load,
   language-model call, history save: the history is loaded after the
   retrieval has returned and before the request is sent, and saved only
   after the model has replied *)
C22_CallOrder ==
    \A p \in Shells :
        IsPrefix(AfterGreeting(op[p]),
                 <<"kb", "embed", "search", "load", "llm", "save">>)

(* C22 as claimed: the history is loaded before any retrieval call *)
C22_AsClaimed ==
    \A p \in Shells :
        IsPrefix(AfterGreeting(op[p]),
                 <<"load", "kb", "embed", "search", "llm", "save">>)

\* an operation went through all its steps and returned its answer
C22_Witness ==
    \E p \in Shells :
        /\ pc[p] = "exited"
        /\ op[p].exit = 0
        /\ op[p].calls = <<"greet", "kb", "embed", "search", "load", "llm", "save">>

-----------------------------------------------------------------------------
(* C23: an operation issues at most one embedding call and at most one
   language-model call; the embedding call is for the question text and
   comes before the similarity search, which is never issued without it;
   an operation that returns an answer issued exactly one of each; after a
   failed greeting, a missing question or a failed KB read no embedding
   call is issued *)
C23_OneEmbeddingOneCompletion ==
    \A p \in Shells :
        LET c == op[p].calls IN
        /\ Count(c, "embed") <= 1
        /\ Count(c, "llm") <= 1
        /\ \A j \in 1..Len(c) :
              c[j] = "search" => \E i \in 1..(j - 1) : c[i] = "embed"
        /\ pc[p] = "search" => op[p].qvec = <<"vec">> \o op[p].question
        /\ op[p].exit = 0 => (Count(c, "embed") = 1 /\ Count(c, "llm") = 1)
        /\ op[p].failedAt \in {"greet", "usage", "kb"} => Count(c, "embed") = 0

\* the question has been embedded and the search is about to be issued
C23_Witness ==
    \E p \in Shells :
        /\ pc[p] = "search"
        /\ op[p].qvec = <<"vec">> \o QuestionText(op[p].id)
        /\ Count(op[p].calls, "embed") = 1

-----------------------------------------------------------------------------
(* C24: the indexer is sequential.  A run starts at the first table of the
   list; a table is read only after the one before it in the list was read
   and all of its rows were upserted; the rows of a table are taken in the
   order the store returned them; the serialization, the embedding and the
   upsert of a row happen in this order and the next row is started only
   after the upsert of the row before it has written its document *)
C24_Sequential ==
    [][/\ ix'.run # ix.run => (ix'.pc = "fetch" /\ ix'.t = 1)
       /\ (ix' # ix /\ ix'.run = ix.run) =>
            LET table == TABLES_TO_EMBED[ix.t]
                sameRow == ix'.t = ix.t /\ ix'.i = ix.i /\ ix'.rows = ix.rows
            IN CASE ix.pc = "fetch" ->
                      \/ ix'.pc = "failed" /\ ix'.t = ix.t
                      \/ /\ ix'.pc = "serialize" /\ ix'.t = ix.t /\ ix'.i = 1
                         /\ ix'.rows = src[table] /\ src[table] # <<>>
                      \/ /\ ix'.pc = "fetch" /\ ix'.t = ix.t + 1
                         /\ src[table] = <<>>
                      \/ /\ ix'.pc = "complete" /\ ix.t = Len(TABLES_TO_EMBED)
                         /\ src[table] = <<>>
                 [] ix.pc = "serialize" ->
                      /\ sameRow
                      /\ ix'.pc \in {"embed", "failed"}
                      /\ ix'.pc = "embed" => ix'.content # <<>>
                 [] ix.pc = "embed" ->
                      /\ sameRow
                      /\ ix'.pc \in {"upsert", "failed"}
                      /\ ix'.pc = "upsert" => ix'.embedding # <<>>
                 [] ix.pc = "upsert" ->
                      LET written ==
                            \E k \in DocsFor(documents', table, Get(ix.rows[ix.i], "id")) :
                                /\ documents'[k].content = ix.content
                                /\ documents'[k].embedding = ix.embedding
                      IN \/ ix'.pc = "failed" /\ sameRow
                         \/ /\ ix'.pc = "serialize" /\ ix'.t = ix.t
                            /\ ix'.i = ix.i + 1 /\ ix'.rows = ix.rows
                            /\ written
                         \/ /\ ix'.pc = "fetch" /\ ix'.t = ix.t + 1
                            /\ ix.i = Len(ix.rows) /\ written
                         \/ /\ ix'.pc = "complete" /\ ix.t = Len(TABLES_TO_EMBED)
                            /\ ix.i = Len(ix.rows) /\ written
                 [] OTHER -> FALSE]_vars

\* the second row of a table is started in the first run, the document of
\* the first row is written
C24_Witness ==
    /\ ix.run = 1
    /\ ix.pc = "serialize"
    /\ ix.i = 2
    /\ DocsFor(documents, TABLES_TO_EMBED[ix.t], Get(ix.rows[1], "id")) # {}
    /\ DocsFor(documents, TABLES_TO_EMBED[ix.t], Get(ix.rows[2], "id")) = {}

-----------------------------------------------------------------------------
(* C25: for a table without a template of its own, serialize returns the
   uppercased table name followed by one key=value item per field of the
   row, in the order of the fields, and no metadata field and no audit
   timestamp (updated_at, created_at) is in the output *)

Bespoke == {"account_snapshots", "monthly_expense_snapshots", "financial_kb"}

Noisy == {"metadata", "updated_at", "created_at"}

C25_GenericFallback ==
    (ix.pc = "embed" /\ TABLES_TO_EMBED[ix.t] \notin Bespoke) =>
        LET kept == Filter(ix.rows[ix.i], Noisy) IN
        /\ ix.content[1] = ToUpperCase(TABLES_TO_EMBED[ix.t])
        /\ \A k \in 1..Len(ix.content) : ix.content[k] \notin Noisy
        /\ ix.content =
              <<ToUpperCase(TABLES_TO_EMBED[ix.t]), " | ">>
              \o Join([i \in 1..Len(kept) |->
                         <<kept[i].k, "=">> \o JsonStringify(kept[i].v)], <<" | ">>)

-----------------------------------------------------------------------------
(* C26: a null value and an absent value of a field give the same token:
   the Fact of a row with a null field is the Fact of the same row without
   that field, in the generic form and in every template *)

\* the row without its field key
Without(row, key) == Filter(row, {key})

C26_NullAsAbsent ==
    ix.pc = "embed" =>
        LET table == TABLES_TO_EMBED[ix.t]
            row == ix.rows[ix.i]
            acct == FindAccount(Get(row, "account_id")).row
        IN \A k \in 1..Len(row) :
              row[k].v = Null =>
                  ix.content = serialize(table, Without(row, row[k].k), acct)

-----------------------------------------------------------------------------
(* C27: the history file, when it is readable, holds for every scope only
   complete exchanges: an even number of turns, at most HISTORY_LIMIT,
   alternating user, assistant from a user turn, with no system message
   (neither the policy nor the context).  The file is absent at first, or
   is the file that five earlier exchanges of one scope have left. *)

CompleteExchanges(h) ==
    /\ Len(h) % 2 = 0
    /\ Len(h) <= HISTORY_LIMIT
    /\ \A i \in 1..Len(h) :
          /\ h[i].role = (IF i % 2 = 1 THEN "user" ELSE "assistant")
          /\ h[i].content # policyPrompt

C27_CompleteExchanges ==
    histFile.kind = "json" =>
        \A s \in DOMAIN histFile.all :
            /\ CompleteExchanges(histFile.all[s])
            /\ \A p \in Shells, i \in 1..Len(histFile.all[s]) :
                  op[p].context # <<>> =>
                      histFile.all[s][i].content # op[p].context

\* a sixth exchange was saved: the oldest one is gone and the limit is kept
C27_Witness ==
    /\ histFile.kind = "json"
    /\ "u1" \in DOMAIN histFile.all
    /\ Len(histFile.all["u1"]) = HISTORY_LIMIT
    /\ histFile.all["u1"][1] = NthTurn(3)
    /\ histFile.all["u1"][HISTORY_LIMIT - 1] = Turn("user", QuestionText(1))

-----------------------------------------------------------------------------
(* C28: no step removes a document.  Every key stored before a step is
   stored after it; the documents change only when the upsert of the
   current row succeeds, and then only the document of that row's key
   changes; a change of the source rows (a row deleted, renamed, given
   another balance) changes no document *)

Keys(docs) == {<<docs[i].source_table, docs[i].source_id>> : i \in 1..Len(docs)}

C28_NeverDeletes ==
    [][/\ Keys(documents) \subseteq Keys(documents')
       /\ src' # src => documents' = documents
       /\ documents' # documents =>
             /\ ix.pc = "upsert"
             /\ LET key == <<TABLES_TO_EMBED[ix.t], Get(ix.rows[ix.i], "id")>>
                IN \A i \in 1..Len(documents) :
                      <<documents[i].source_table, documents[i].source_id>> # key
                          => /\ i <= Len(documents')
                             /\ documents'[i] = documents[i]
      ]_vars

\* a run has completed after the snapshot s2 was deleted and the account
\* renamed: the document of s2 is still stored, and before that run reached
\* the account its document held the old name
C28_Witness ==
    /\ ix.run >= 2
    /\ ix.pc = "complete"
    /\ ~audit.tainted
    /\ Len(src["account_snapshots"]) = 1
    /\ DocsFor(documents, "account_snapshots", Str("s2")) # {}
    /\ \E k \in DocsFor(audit.docsAtStart, "accounts", Str("a1")) :
          audit.docsAtStart[k].content # Fact("accounts", src["accounts"][1])

-----------------------------------------------------------------------------
(* C29: every document carries the user_id of the row it was made from, and
   no user_id when the row has none (profiles, financial_kb); the search of
   the question path, restricted to a scope, returns no such document for
   any scope *)

ScopeOf(row) ==
    IF Get(row, "user_id") = Undefined THEN Null ELSE Get(row, "user_id")

C29_ScopeOfDocument ==
    /\ \A i \in 1..Len(documents) :
          LET d == documents[i]
              made == {e \in audit.said :
                          e[1] = d.source_table /\ Get(e[2], "id") = d.source_id}
          IN /\ made # {}
             /\ \A e \in made : d.user_id = ScopeOf(e[2])
             /\ d.source_table \in {"profiles", "financial_kb"} => d.user_id = Null
    /\ \A scope \in Scopes, kind \in SimChoices :
          LET rows == match_documents(documents, scope, kind,
                                      MATCH_THRESHOLD, MATCH_COUNT)
          IN \A k \in 1..Len(rows) :
                /\ rows[k].user_id = Str(scope)
                /\ \A i \in 1..Len(documents) :
                      documents[i].user_id = Null
                          => rows[k].content # documents[i].content

\* a complete run: the documents of the profile and of the formula have no
\* scope, the search for u1 returns documents, and none for u2
C29_Witness ==
    /\ ix.pc = "complete"
    /\ \E i \in DocsFor(documents, "profiles", Str("u1")) :
          documents[i].user_id = Null
    /\ \E i \in DocsFor(documents, "financial_kb", Str("k1")) :
          documents[i].user_id = Null
    /\ Len(match_documents(documents, "u1", "all", MATCH_THRESHOLD, MATCH_COUNT)) = 3
    /\ match_documents(documents, "u2", "all", MATCH_THRESHOLD, MATCH_COUNT) = <<>>

=============================================================================
